---- MODULE Spec2Model ----
(***************************************************************************)
(* Controller2D of Course1FinalProject/controller2d.py: the per-tick       *)
(* waypoint-following controller (longitudinal PI-like throttle law and    *)
(* pure-pursuit steering) as a state machine.                              *)
(*                                                                         *)
(* Numbers.  Positions, speeds and the accumulated speed error are whole   *)
(* metres and metres per second.  Angles, and the three actuator outputs,  *)
(* are fixed-point thousandths (milli-radians, milli-units): 0.3 rad is    *)
(* 300, a throttle of 1.0 is 1000.  numpy/math functions are modelled by   *)
(* fixed-point versions of what they compute (series, range reduction).    *)
(***************************************************************************)
EXTENDS Integers, Sequences, FiniteSets, TLC

VARIABLES
    current_x,           \* self._current_x
    current_y,           \* self._current_y
    current_yaw,         \* self._current_yaw           (milli-rad)
    current_speed,       \* self._current_speed
    desired_speed,       \* self._desired_speed
    current_frame,       \* self._current_frame
    current_timestamp,   \* self._current_timestamp
    start_control_loop,  \* self._start_control_loop
    set_throttle,        \* self._set_throttle          (milli)
    set_brake,           \* self._set_brake             (milli)
    set_steer,           \* self._set_steer             (milli)
    waypoints,           \* self._waypoints
    vars_,               \* self.vars (cutils.CUtils): name -> value
    raised,              \* exception raised by the latest call, or "none"
    returned,            \* triple returned by get_commands since the latest
                         \* update_controls, or <<>> when there was none
    seen_frame,          \* history: some update_values call had a truthy frame
    completed,           \* history: the number of update_controls calls that completed
    error_sum,           \* history: the sum of (desired speed - speed) over those calls
    twin                 \* a second Controller2D, constructed on the same path and given
                         \* the same calls with every timestamp replaced by 0

vars == <<current_x, current_y, current_yaw, current_speed, desired_speed,
          current_frame, current_timestamp, start_control_loop, set_throttle,
          set_brake, set_steer, waypoints, vars_, raised, returned, seen_frame,
          completed, error_sum, twin>>

\* The controller object's own fields (everything but the observers).
ctrl == <<current_x, current_y, current_yaw, current_speed, desired_speed,
          current_frame, current_timestamp, start_control_loop, set_throttle,
          set_brake, set_steer, waypoints, vars_>>

-----------------------------------------------------------------------------
(* Bounds of the model *)

\* update_controls is not called once step has reached MaxStep
MaxStep == 102
\* update_controls is not called when it would take |v_diff_previous| past MaxAcc
MaxAcc == 8

-----------------------------------------------------------------------------
(* Fixed-point arithmetic *)

\* 1.0 in fixed point: one unit is a thousandth
Milli == 1000
\* np.pi, in milli-rad
Pi == 3142
\* np.pi / 2
HalfPi == 1571
\* np.pi / 4
QuarterPi == HalfPi \div 2
\* 2 * np.pi
TwoPi == 6283

\* float("nan"): a value no computation of the model produces from finite inputs
NaN == 0 - 99999999
IsNaN(a) == a = NaN

Abs(a) == IF a < 0 THEN 0 - a ELSE a

\* a / b for b > 0, rounded to the nearest integer, symmetric about 0
RDiv(a, b) == IF a >= 0 THEN (2 * a + b) \div (2 * b)
                        ELSE 0 - ((2 * (0 - a) + b) \div (2 * b))

\* IEEE arithmetic and comparisons: NaN propagates, and compares false
FAdd(a, b) == IF IsNaN(a) \/ IsNaN(b) THEN NaN ELSE a + b
FSub(a, b) == IF IsNaN(a) \/ IsNaN(b) THEN NaN ELSE a - b
FScale(k, a) == IF IsNaN(a) THEN NaN ELSE k * a
FGt(a, b) == ~IsNaN(a) /\ ~IsNaN(b) /\ a > b
FLt(a, b) == ~IsNaN(a) /\ ~IsNaN(b) /\ a < b

\* np.fmin / np.fmax: the minimum / maximum, ignoring a NaN operand
fmin(a, b) == IF IsNaN(a) THEN b ELSE IF IsNaN(b) THEN a ELSE IF a < b THEN a ELSE b
fmax(a, b) == IF IsNaN(a) THEN b ELSE IF IsNaN(b) THEN a ELSE IF a > b THEN a ELSE b

\* floor(sqrt(n)), by bisection on [lo, hi)
RECURSIVE IsqrtIn(_, _, _)
IsqrtIn(n, lo, hi) ==
    IF hi - lo <= 1 THEN lo
    ELSE LET mid == (lo + hi) \div 2
         IN  IF mid * mid <= n THEN IsqrtIn(n, mid, hi) ELSE IsqrtIn(n, lo, mid)
Isqrt(n) == IsqrtIn(n, 0, 46341)

\* the largest squared distance, in whole square metres, whose square root in
\* milli-metres is computed without overflow of 32-bit integers
MaxDist2 == (2147483647 \div Milli) \div Milli
\* sqrt(n) in milli, tabulated for n = 0 .. MaxDist2
SqrtMilli == [n \in 0 .. MaxDist2 |-> Isqrt(n * Milli * Milli)]

\* np.linalg.norm([dx, dy]) in milli-metres, for whole metres dx, dy
norm(dx, dy) == SqrtMilli[dx * dx + dy * dy]

\* np.sin of a milli-rad angle, in milli: reduction to [-pi/2, pi/2], then
\* the series x - x^3/3! + x^5/5! - x^7/7! + x^9/9!
WrapPi(a) == ((a + Pi) % TwoPi) - Pi
SinSeries(q) ==
    LET q2 == (q * q) \div Milli
        t3 == RDiv(q * q2, Milli)
        t5 == RDiv(t3 * q2, Milli)
        t7 == RDiv(t5 * q2, Milli)
        t9 == RDiv(t7 * q2, Milli)
    IN  q - RDiv(t3, 6) + RDiv(t5, 120) - RDiv(t7, 5040) + RDiv(t9, 362880)
sin(a) ==
    LET r == WrapPi(a)
        q == IF r > HalfPi THEN Pi - r ELSE IF r < 0 - HalfPi THEN 0 - Pi - r ELSE r
        s == SinSeries(q)
    IN  IF s > Milli THEN Milli ELSE IF s < 0 - Milli THEN 0 - Milli ELSE s

\* np.arctan of a milli argument, in milli-rad: the series
\* t - t^3/3 + t^5/5 - t^7/7 on |t| <= tan(pi/8), and the identities
\* atan(t) = pi/4 + atan((t-1)/(t+1)), atan(t) = pi/2 - atan(1/t) beyond
ArctanSeries(t) ==
    LET t2 == (t * t) \div Milli
        t3 == RDiv(t * t2, Milli)
        t5 == RDiv(t3 * t2, Milli)
        t7 == RDiv(t5 * t2, Milli)
    IN  t - RDiv(t3, 3) + RDiv(t5, 5) - RDiv(t7, 7)
ArctanUnit(t) ==
    IF t > 414 THEN QuarterPi + ArctanSeries(RDiv((t - Milli) * Milli, t + Milli))
    ELSE ArctanSeries(t)
ArctanPos(t) ==
    IF t > Milli THEN HalfPi - ArctanUnit(RDiv(Milli * Milli, t)) ELSE ArctanUnit(t)
arctan(t) == IF t < 0 THEN 0 - ArctanPos(0 - t) ELSE ArctanPos(t)

\* math.atan2(y, x) for whole-metre y, x, in milli-rad
atan2(y, x) ==
    IF x > 0 THEN arctan(RDiv(y * Milli, x))
    ELSE IF x < 0 THEN (IF y >= 0 THEN Pi - arctan(RDiv(y * Milli, 0 - x))
                                  ELSE 0 - Pi + arctan(RDiv((0 - y) * Milli, 0 - x)))
    ELSE IF y > 0 THEN HalfPi ELSE IF y < 0 THEN 0 - HalfPi ELSE 0

-----------------------------------------------------------------------------
(* Inputs the harness supplies *)

\* what update_values is called with: <<x, y, yaw, speed, timestamp, frame>>
\* (whole metres, milli-rad, m/s)
Feeds ==
    { <<0, 0, 0, 5, 0, 0>>,                    \* frame 0, on the first waypoint
      <<5, 0, 0, 5, 1, 0>>,                    \* frame 0, midway between two waypoints
      <<0, 0, 0 - HalfPi, 12, 1, 1>>,          \* target abeam to the right
      <<30, 0, 0 - HalfPi, 5, 2, 1>>,          \* beyond the last waypoint, target to the left
      <<19, 0 - 3, 0 - HalfPi, 12, 2, 1>>,     \* target slightly off the heading
      <<19, 0 - 20, 0 - 1540, 12, 3, 1>> }     \* target almost dead ahead, yaw in the deadband
\* the same with a non-finite speed reading and a non-finite yaw reading
FeedsNonFinite ==
    Feeds \cup { <<0, 0, 0 - HalfPi, NaN, 1, 1>>, <<19, 0 - 3, NaN, 12, 2, 1>> }

\* update_values arguments one m/s apart around the target speed of 12 m/s, at
\* one pose, the first with frame 0
FeedsFine ==
    { <<19, 0 - 3, 0 - HalfPi, 11, 1, 0>>,
      <<19, 0 - 3, 0 - HalfPi, 11, 1, 1>>,
      <<19, 0 - 3, 0 - HalfPi, 12, 1, 1>> }

PathEmpty == <<>>
PathSingle == << <<3, 4, 12>> >>
PathLine == << <<0, 0, 5>>, <<10, 0, 12>>, <<20, 0, 12>> >>
\* the number of waypoints of PathLong
LongLen == 36
\* a path long enough for the lookahead index floor(step / 3) to stay short of
\* its last index after the start-up suppression: waypoint i at (i - 15, 0),
\* target speeds 5 and 12 alternating
PathLong == [i \in 1 .. LongLen |-> <<i - 15, 0, IF i % 2 = 0 THEN 12 ELSE 5>>]
Paths == {PathEmpty, PathSingle, PathLine, PathLong}

-----------------------------------------------------------------------------
(* cutils.CUtils *)

\* CUtils.create_var: create-if-absent
create_var(vs, var_name, value) ==
    IF var_name \in DOMAIN vs THEN vs ELSE vs @@ (var_name :> value)

-----------------------------------------------------------------------------
(* Controller2D *)

\* float("inf")
Inf == 2000000000

\* 180.0 / 70.0 / np.pi, in milli
conv_rad_to_steer == 819

\* NearestScan with "dist <= min_dist": the last of several nearest waypoints wins
RECURSIVE NearestScan_le(_, _, _, _, _, _)
NearestScan_le(wps, x, y, i, min_idx, min_dist) ==
    IF i >= Len(wps) THEN min_idx
    ELSE LET dist == norm(wps[i + 1][1] - x, wps[i + 1][2] - y)
         IN  IF dist <= min_dist THEN NearestScan_le(wps, x, y, i + 1, i, dist)
                                 ELSE NearestScan_le(wps, x, y, i + 1, min_idx, min_dist)

\* the loop of update_desired_speed over i = 0 .. len-1: the resulting min_idx
RECURSIVE NearestScan(_, _, _, _, _, _)
NearestScan(wps, x, y, i, min_idx, min_dist) ==
    IF i >= Len(wps) THEN min_idx
    ELSE LET dist == norm(wps[i + 1][1] - x, wps[i + 1][2] - y)
         IN  IF dist < min_dist THEN NearestScan(wps, x, y, i + 1, i, dist)
                                ELSE NearestScan(wps, x, y, i + 1, min_idx, min_dist)

\* update_desired_speed
\* the value it stores in _desired_speed, for a non-empty path
update_desired_speed(wps, x, y) ==
    LET min_idx == NearestScan(wps, x, y, 0, 0, Inf)
    IN  IF min_idx < Len(wps) - 1 THEN wps[min_idx + 1][3] ELSE wps[Len(wps)][3]

\* SetThrottle storing a percentage, 0 to 100, unclamped
SetThrottle_percent(input_throttle) ==
    IF IsNaN(input_throttle) THEN NaN ELSE 100 * input_throttle

\* set_throttle / set_brake: clamp to [0, 1]
SetThrottle(input_throttle) == fmax(fmin(input_throttle, Milli), 0)
SetBrake(input_brake) == fmax(fmin(input_brake, Milli), 0)

\* set_steer: radians to [-1, 1], clamped
SetSteer(input_steer_in_rad) ==
    LET input_steer == IF IsNaN(input_steer_in_rad) THEN NaN
                       ELSE RDiv(conv_rad_to_steer * input_steer_in_rad, Milli)
    IN  fmax(fmin(input_steer, Milli), 0 - Milli)

\* gains of the longitudinal law, in milli: pGain = 0.6, iGain = 0.01, dGain = 1
pGain == 600
iGain == 10
dGain == 1000
\* normalizeFactor = 16.25 / 2 / 5, in milli
normalizeFactor == 1625

\* ThrottleOutput with the current tick's error already in the integral term
ThrottleOutput_current(v_desired, v, v_previous, v_diff_previous) ==
    LET throttle == FAdd(FAdd(FScale(pGain, FSub(v_desired, v)),
                              FScale(dGain, FSub(v, v_previous))),
                         FScale(iGain, FAdd(FSub(v_desired, v), v_diff_previous)))
        throttlePercent == IF IsNaN(throttle) THEN NaN
                           ELSE RDiv(throttle * Milli, normalizeFactor)
    IN  IF FGt(throttlePercent, Milli) THEN Milli
        ELSE IF FLt(throttlePercent, 0) THEN 0
        ELSE throttlePercent

\* the longitudinal law of update_controls: throttle_output, in milli
ThrottleOutput(v_desired, v, v_previous, v_diff_previous) ==
    LET throttle == FAdd(FAdd(FScale(pGain, FSub(v_desired, v)),
                              FScale(dGain, FSub(v, v_previous))),
                         FScale(iGain, v_diff_previous))
        throttlePercent == IF IsNaN(throttle) THEN NaN
                           ELSE RDiv(throttle * Milli, normalizeFactor)
    IN  IF FGt(throttlePercent, Milli) THEN Milli
        ELSE IF FLt(throttlePercent, 0) THEN 0
        ELSE throttlePercent

\* BrakeOutput as a half brake
BrakeOutput_half == Milli \div 2

\* brake_output of update_controls
BrakeOutput == 0

\* LookaheadIndex computed from the step after this call's increment
LookaheadIndex_next(step, len) ==
    IF (step + 1) \div 3 < len - 1 THEN (step + 1) \div 3 ELSE len - 1

\* the index of the waypoint the lateral law steers to
LookaheadIndex(step, len) ==
    IF step \div 3 < len - 1 THEN step \div 3 ELSE len - 1

\* L = 3 and kdd = 0.8 (milli) of the pure-pursuit law
L == 3
kdd == 800
\* the floor on the velocity used by the law
MinVelocity == 10
\* the deadband on processed_yaw, 0.05 rad
YawDeadband == 50
\* the deadband on steer_angle, 0.05 rad
Deadband == 50
\* the limit on steer_angle, 0.3 rad
SteerLimit == 300
\* the number of steps during which steering is suppressed
SuppressSteps == 100

\* steer_angle before the start-up suppression and the limits.  rearAxialX,
\* rearAxialY, vector_ld, vector_l and ld are computed by the code and not used.
\* A NaN in the pose propagates through atan2, sin and arctan.
PurePursuit(x, y, yaw, v_desired, waypoint) ==
    IF IsNaN(x) \/ IsNaN(y) \/ IsNaN(yaw) THEN NaN
    ELSE LET py0 == 0 - yaw - HalfPi
             processed_yaw == IF Abs(py0) < YawDeadband THEN 0 ELSE py0
             lookAheadX == waypoint[1]
             lookAheadY == waypoint[2]
             alpha == atan2(lookAheadX - x, lookAheadY - y) - processed_yaw
             velocity == IF v_desired < MinVelocity THEN MinVelocity ELSE v_desired
         IN  arctan(RDiv(2 * L * sin(alpha) * Milli, kdd * velocity))

\* LimitSteer with the suppression ending one step early
LimitSteer_early(steer_angle, step) ==
    LET a1 == IF step < SuppressSteps - 1 THEN 0 ELSE steer_angle
        a2 == IF FGt(a1, SteerLimit) THEN SteerLimit
              ELSE IF FLt(a1, 0 - SteerLimit) THEN 0 - SteerLimit ELSE a1
    IN  IF ~IsNaN(a2) /\ Abs(a2) < Deadband THEN 0 ELSE a2

\* start-up suppression, limits and deadband applied to steer_angle
LimitSteer(steer_angle, step) ==
    LET a1 == IF step < SuppressSteps THEN 0 ELSE steer_angle
        a2 == IF FGt(a1, SteerLimit) THEN SteerLimit
              ELSE IF FLt(a1, 0 - SteerLimit) THEN 0 - SteerLimit ELSE a1
    IN  IF ~IsNaN(a2) /\ Abs(a2) < Deadband THEN 0 ELSE a2

\* the lateral law of update_controls: steer_output, in milli-rad
SteerOutput(x, y, yaw, v_desired, wps, step) ==
    LET waypoint == wps[LookaheadIndex(step, Len(wps)) + 1]
    IN  LimitSteer(PurePursuit(x, y, yaw, v_desired, waypoint), step)

\* ControlOutputs with the integral term weighted by the timestamp t
ControlOutputs_timed(started, old, x, y, yaw, v, t, v_desired, wps, vs) ==
    IF started
    THEN <<SetThrottle(ThrottleOutput(v_desired, v, vs["v_previous"],
                                      FScale(t, vs["v_diff_previous"]))),
           SetSteer(SteerOutput(x, y, yaw, v_desired, wps, vs["step"])),
           SetBrake(BrakeOutput)>>
    ELSE old

\* ControlOutputs without the _start_control_loop guard
ControlOutputs_unguarded(started, old, x, y, yaw, v, t, v_desired, wps, vs) ==
    <<SetThrottle(ThrottleOutput(v_desired, v, vs["v_previous"], vs["v_diff_previous"])),
      SetSteer(SteerOutput(x, y, yaw, v_desired, wps, vs["step"])),
      SetBrake(BrakeOutput)>>

\* the block guarded by _start_control_loop: <<_set_throttle, _set_steer, _set_brake>>
\* after the call, given the triple before it.  t is the timestamp the code
\* reads with the rest of the feedback.
ControlOutputs(started, old, x, y, yaw, v, t, v_desired, wps, vs) ==
    IF started
    THEN <<SetThrottle(ThrottleOutput(v_desired, v, vs["v_previous"], vs["v_diff_previous"])),
           SetSteer(SteerOutput(x, y, yaw, v_desired, wps, vs["step"])),
           SetBrake(BrakeOutput)>>
    ELSE old

\* StartControlLoop started by any call
StartControlLoop_always(old, frame) == TRUE
\* StartControlLoop following the latest frame instead of latching
StartControlLoop_follow(old, frame) == frame # 0

\* the value of _start_control_loop after update_values
StartControlLoop(old, frame) == IF frame # 0 THEN TRUE ELSE old

\* Declared with step re-initialised by every call
Declared_reset(vs) ==
    ("step" :> 0) @@ create_var(create_var(vs, "v_previous", 0), "v_diff_previous", 0)

\* self.vars after the three create_var calls of update_controls
Declared(vs) ==
    create_var(create_var(create_var(vs, "v_previous", 0), "v_diff_previous", 0), "step", 0)

\* NextDiff with the accumulator reset by a tick that has no speed error
NextDiff_reset(v_desired, v, v_diff_previous) ==
    IF v_desired = v THEN 0 ELSE FAdd(FSub(v_desired, v), v_diff_previous)

\* v_diff_previous after the call
NextDiff(v_desired, v, v_diff_previous) == FAdd(FSub(v_desired, v), v_diff_previous)

\* self.vars after the stores that end update_controls
Stored(vs, v, v_desired) ==
    [vs EXCEPT !["v_previous"] = v,
               !["v_diff_previous"] = NextDiff(v_desired, v, vs["v_diff_previous"]),
               !["step"] = vs["step"] + 1]

(* The methods as functions of a Controller2D given as a record of its fields *)

\* Controller2D(waypoints)
Constructed(wps) ==
    [current_x |-> 0, current_y |-> 0, current_yaw |-> 0, current_speed |-> 0,
     desired_speed |-> 0, current_frame |-> 0, current_timestamp |-> 0,
     start_control_loop |-> FALSE, set_throttle |-> 0, set_brake |-> 0, set_steer |-> 0,
     waypoints |-> wps, vars_ |-> <<>>]

\* c after c.update_values(x, y, yaw, speed, timestamp, frame)
AfterUpdateValues(c, x, y, yaw, speed, timestamp, frame) ==
    [c EXCEPT !.current_x = x, !.current_y = y, !.current_yaw = yaw,
              !.current_speed = speed, !.current_timestamp = timestamp,
              !.current_frame = frame,
              !.start_control_loop = StartControlLoop(c.start_control_loop, frame)]

\* c after c.update_waypoints(new_waypoints)
AfterUpdateWaypoints(c, new_waypoints) == [c EXCEPT !.waypoints = new_waypoints]

\* c after the part of update_controls that follows update_desired_speed
AfterControlLaws(c, v_desired) ==
    LET x == c.current_x
        y == c.current_y
        yaw == c.current_yaw
        v == c.current_speed
        t == c.current_timestamp
        vs == Declared(c.vars_)
        out == ControlOutputs(c.start_control_loop,
                              <<c.set_throttle, c.set_steer, c.set_brake>>,
                              x, y, yaw, v, t, v_desired, c.waypoints, vs)
    IN  [c EXCEPT !.desired_speed = v_desired,
                  !.set_throttle = out[1], !.set_steer = out[2], !.set_brake = out[3],
                  !.vars_ = Stored(vs, v, v_desired)]

\* c after c.update_controls(); on an empty path the call raises and stores nothing
AfterUpdateControls(c) ==
    IF Len(c.waypoints) = 0 THEN c
    ELSE AfterControlLaws(c, update_desired_speed(c.waypoints, c.current_x, c.current_y))

\* what c.get_commands() returns
CommandsOf(c) == <<c.set_throttle, c.set_steer, c.set_brake>>

Step == IF "step" \in DOMAIN vars_ THEN vars_["step"] ELSE 0

Init ==
    /\ current_x = 0
    /\ current_y = 0
    /\ current_yaw = 0
    /\ current_speed = 0
    /\ desired_speed = 0
    /\ current_frame = 0
    /\ current_timestamp = 0
    /\ start_control_loop = FALSE
    /\ set_throttle = 0
    /\ set_brake = 0
    /\ set_steer = 0
    /\ waypoints \in Paths
    /\ vars_ = <<>>
    /\ raised = "none"
    /\ returned = <<>>
    /\ seen_frame = FALSE
    /\ completed = 0
    /\ error_sum = 0
    /\ twin = Constructed(waypoints)

\* update_values(x, y, yaw, speed, timestamp, frame) with arguments drawn from F
update_values(F) ==
    \E f \in F :
        LET x == f[1]  y == f[2]  yaw == f[3]  speed == f[4]  timestamp == f[5]  frame == f[6]
        IN  /\ current_x' = x
            /\ current_y' = y
            /\ current_yaw' = yaw
            /\ current_speed' = speed
            /\ current_timestamp' = timestamp
            /\ current_frame' = frame
            /\ start_control_loop' = StartControlLoop(start_control_loop, frame)
            /\ seen_frame' = (seen_frame \/ frame # 0)
            /\ raised' = "none"
            /\ twin' = AfterUpdateValues(twin, x, y, yaw, speed, 0, frame)
            /\ UNCHANGED <<desired_speed, set_throttle, set_brake, set_steer, waypoints,
                           vars_, returned, completed, error_sum>>

UpdateValues == update_values(Feeds)
UpdateValuesNonFinite == update_values(FeedsNonFinite)

\* UpdateWaypoints restarting the step counter with the new path
UpdateWaypoints_restart ==
    \E new_waypoints \in Paths :
        /\ waypoints' = new_waypoints
        /\ vars_' = IF "step" \in DOMAIN vars_ THEN [vars_ EXCEPT !["step"] = 0] ELSE vars_
        /\ raised' = "none"
        /\ twin' = AfterUpdateWaypoints(twin, new_waypoints)
        /\ UNCHANGED <<current_x, current_y, current_yaw, current_speed, desired_speed,
                       current_frame, current_timestamp, start_control_loop,
                       set_throttle, set_brake, set_steer, returned, seen_frame,
                       completed, error_sum>>

\* update_waypoints(new_waypoints)
UpdateWaypoints ==
    \E new_waypoints \in Paths :
        /\ waypoints' = new_waypoints
        /\ raised' = "none"
        /\ twin' = AfterUpdateWaypoints(twin, new_waypoints)
        /\ UNCHANGED <<current_x, current_y, current_yaw, current_speed, desired_speed,
                       current_frame, current_timestamp, start_control_loop,
                       set_throttle, set_brake, set_steer, vars_, returned, seen_frame,
                       completed, error_sum>>

\* GetCommands consuming the throttle it returns
GetCommands_consume ==
    /\ returned' = <<set_throttle, set_steer, set_brake>>
    /\ set_throttle' = 0
    /\ raised' = "none"
    /\ UNCHANGED <<current_x, current_y, current_yaw, current_speed, desired_speed,
                   current_frame, current_timestamp, start_control_loop,
                   set_brake, set_steer, waypoints, vars_, seen_frame,
                   completed, error_sum, twin>>

\* get_commands()
GetCommands ==
    /\ returned' = <<set_throttle, set_steer, set_brake>>
    /\ raised' = "none"
    /\ UNCHANGED <<ctrl, seen_frame, completed, error_sum, twin>>

\* UpdateControlsEmpty storing the initial desired_speed of 0 before it raises
UpdateControlsEmpty_partial ==
    /\ Len(waypoints) = 0
    /\ desired_speed' = 0
    /\ raised' = "IndexError"
    /\ returned' = <<>>
    /\ UNCHANGED <<current_x, current_y, current_yaw, current_speed, current_frame,
                   current_timestamp, start_control_loop, set_throttle, set_brake,
                   set_steer, waypoints, vars_, seen_frame, completed, error_sum, twin>>

\* update_controls() on an empty path: waypoints[-1] raises in update_desired_speed
UpdateControlsEmpty ==
    /\ Len(waypoints) = 0
    /\ raised' = "IndexError"
    /\ returned' = <<>>
    /\ UNCHANGED <<ctrl, seen_frame, completed, error_sum, twin>>

\* update_controls() on a non-empty path
UpdateControlsRun ==
    /\ Len(waypoints) > 0
    /\ \E v_desired \in {update_desired_speed(waypoints, current_x, current_y)} :
       LET x == current_x
           y == current_y
           yaw == current_yaw
           v == current_speed
           t == current_timestamp
           vs == Declared(vars_)
           acc == NextDiff(v_desired, v, vs["v_diff_previous"])
       IN  /\ vs["step"] < MaxStep
           /\ IsNaN(acc) \/ Abs(acc) <= MaxAcc
           /\ desired_speed' = v_desired
           /\ LET out == ControlOutputs(start_control_loop,
                                        <<set_throttle, set_steer, set_brake>>,
                                        x, y, yaw, v, t, v_desired, waypoints, vs)
              IN  /\ set_throttle' = out[1]
                  /\ set_steer' = out[2]
                  /\ set_brake' = out[3]
           /\ vars_' = Stored(vs, v, v_desired)
           /\ error_sum' = IF IsNaN(v) \/ IsNaN(error_sum) THEN NaN
                           ELSE error_sum + (v_desired - v)
    /\ completed' = completed + 1
    /\ twin' = AfterUpdateControls(twin)
    /\ raised' = "none"
    /\ returned' = <<>>
    /\ UNCHANGED <<current_x, current_y, current_yaw, current_speed, current_frame,
                   current_timestamp, start_control_loop, waypoints, seen_frame>>

UpdateControls == UpdateControlsEmpty \/ UpdateControlsRun

Next == UpdateValues \/ UpdateWaypoints \/ UpdateControls \/ GetCommands
Spec == Init /\ [][Next]_vars

\* the same controller fed readings that may be non-finite
NextNonFinite == UpdateValuesNonFinite \/ UpdateWaypoints \/ UpdateControls \/ GetCommands
SpecNonFinite == Init /\ [][NextNonFinite]_vars

\* the same controller fed speeds close to the target speed
UpdateValuesFine == update_values(FeedsFine)
NextFine == UpdateValuesFine \/ UpdateWaypoints \/ UpdateControls \/ GetCommands
SpecFine == Init /\ [][NextFine]_vars

-----------------------------------------------------------------------------
(* Properties *)

\* what get_commands returns in the current state
Commands == <<set_throttle, set_steer, set_brake>>
\* a step in which an update_controls call completes
ControlsCompleted == Step' = Step + 1
PreviousSpeed == IF "v_previous" \in DOMAIN vars_ THEN vars_["v_previous"] ELSE 0

InRange(t) == /\ t[1] \in 0 .. Milli
              /\ t[2] \in (0 - Milli) .. Milli
              /\ t[3] \in 0 .. Milli

\* squared distance from (x, y) to the i-th waypoint of wps (1-based)
Dist2(wps, i, x, y) ==
    (wps[i][1] - x) * (wps[i][1] - x) + (wps[i][2] - y) * (wps[i][2] - y)
\* i is the lowest index among the waypoints of wps nearest to (x, y)
FirstNearest(wps, i, x, y) ==
    /\ \A j \in 1 .. Len(wps) : Dist2(wps, i, x, y) <= Dist2(wps, j, x, y)
    /\ \A j \in 1 .. (i - 1) : Dist2(wps, j, x, y) > Dist2(wps, i, x, y)
\* speed is the target speed of the lowest-indexed nearest waypoint
IsNearestSpeed(speed, wps, x, y) ==
    \E i \in 1 .. Len(wps) : FirstNearest(wps, i, x, y) /\ speed = wps[i][3]

\* C1: whatever calls were made, the commands, and any triple get_commands
\* returned, have throttle in [0,1], steer in [-1,1] and brake in [0,1].
C1_CommandsInRange ==
    /\ InRange(Commands)
    /\ returned # <<>> => InRange(returned)
\* a saturated throttle and a non-zero steer were computed and read
C1_Witness ==
    /\ start_control_loop
    /\ Step > SuppressSteps
    /\ set_throttle = Milli
    /\ set_steer < 0
    /\ returned = Commands

\* C2: while no update_values call had a non-zero frame, the commands are
\* (0, 0, 0), however many other calls were made.
C2_ZeroBeforeFirstFrame ==
    ~seen_frame => /\ Commands = <<0, 0, 0>>
                   /\ returned # <<>> => returned = <<0, 0, 0>>
\* two update_controls calls and a zero-frame update_values, then a read
C2_Witness ==
    /\ ~seen_frame
    /\ Step >= 2
    /\ current_speed = 5
    /\ PreviousSpeed = 5
    /\ returned = <<0, 0, 0>>

\* C3: the controller is Warm exactly when some earlier update_values call had
\* a non-zero frame; as that history only grows, Warm is never left.
C3_WarmIffFrameSeen == start_control_loop <=> seen_frame
\* Warm, after a later zero-frame update_values and an update_controls on it
C3_Witness ==
    /\ seen_frame
    /\ start_control_loop
    /\ current_frame = 0
    /\ Step >= 1
    /\ PreviousSpeed = current_speed
    /\ set_throttle > 0

\* C4: an update_controls call that completes in the Cold state leaves
\* throttle, steer and brake as they were and sets the desired speed to the
\* target speed of the nearest waypoint of the current position and path.
C4_ColdControls ==
    [][(ControlsCompleted /\ ~start_control_loop)
          => /\ UNCHANGED <<set_throttle, set_steer, set_brake>>
             /\ IsNearestSpeed(desired_speed', waypoints, current_x, current_y)]_vars
\* a Cold call has moved the desired speed to 12 and left the commands at zero
C4_Witness ==
    /\ ~start_control_loop
    /\ Step >= 1
    /\ current_speed = 5
    /\ PreviousSpeed = 5
    /\ desired_speed = 12
    /\ Commands = <<0, 0, 0>>

\* C5: after an update_controls call on a non-empty path, the desired speed is
\* the target speed of the lowest-indexed waypoint among those nearest to the
\* current position.
C5_NearestFirstSpeed ==
    [][ControlsCompleted
          => IsNearestSpeed(desired_speed', waypoints, current_x, current_y)]_vars
\* midway between the first two waypoints, the first one's speed was taken
C5_Witness ==
    /\ waypoints = PathLine
    /\ current_x = 5
    /\ current_y = 0
    /\ Dist2(waypoints, 1, current_x, current_y) = Dist2(waypoints, 2, current_x, current_y)
    /\ Step >= 1
    /\ PreviousSpeed = current_speed
    /\ desired_speed = waypoints[1][3]
    /\ desired_speed # waypoints[2][3]

\* C6: an update_controls call made while step < 100 leaves the steer at 0.
C6_SteerSuppressed ==
    [][(ControlsCompleted /\ Step < SuppressSteps) => set_steer' = 0]_vars
\* the call at step 99, Warm, on a geometry whose pure-pursuit angle is beyond
\* the deadband, has left the steer at 0
C6_Witness ==
    /\ start_control_loop
    /\ Step = SuppressSteps
    /\ waypoints # <<>>
    /\ PreviousSpeed = current_speed
    /\ desired_speed = update_desired_speed(waypoints, current_x, current_y)
    /\ Abs(PurePursuit(current_x, current_y, current_yaw, desired_speed,
                       waypoints[LookaheadIndex(Step - 1, Len(waypoints)) + 1])) >= Deadband
    /\ set_steer = 0

\* C7: update_controls on an empty path fails with the EmptyPath error, not
\* with an index-out-of-range failure.
C7_EmptyPathError == raised \in {"none", "EmptyPath"}

\* C8: no update_controls call completes its control computations on a
\* non-finite speed: a non-finite reading is rejected before them.
C8_NonFiniteRejected ==
    [][(ControlsCompleted /\ start_control_loop) => ~IsNaN(current_speed)]_vars

\* C9: the brake of the commands, and of any triple get_commands returned, is 0.
C9_BrakeZero ==
    /\ set_brake = 0
    /\ returned # <<>> => returned[3] = 0
\* a Warm call on a vehicle faster than the desired speed: no throttle, no brake
C9_Witness ==
    /\ start_control_loop
    /\ Step >= 1
    /\ desired_speed > 0
    /\ current_speed > desired_speed
    /\ PreviousSpeed = current_speed
    /\ set_throttle = 0
    /\ set_brake = 0

\* C10: a get_commands call changes no field of the controller and returns
\* the current triple, and the triples returned by get_commands calls with no
\* update_controls call between them are identical.
C10_PureRead ==
    [][/\ (returned = <<>> /\ returned' # <<>>) => (UNCHANGED ctrl /\ returned' = Commands)
       /\ (returned # <<>> /\ returned' # <<>>) => returned' = returned]_vars
\* a read of non-zero commands
C10_Witness ==
    /\ returned # <<>>
    /\ returned = Commands
    /\ returned[1] > 0
    /\ returned[2] # 0

\* C11: a second controller constructed on the same path and given the same
\* calls with the same arguments, except that every timestamp is replaced by
\* 0, has after every call the same commands and the same persistent
\* variables: the outputs are a function of the call sequence and the
\* timestamp does not influence them.
C11_SameCallsSameCommands ==
    /\ CommandsOf(twin) = Commands
    /\ twin.vars_ = vars_
    /\ twin.desired_speed = desired_speed
\* Warm calls past the start-up suppression with differing timestamps, an
\* unsaturated throttle and a non-zero steer
C11_Witness ==
    /\ current_timestamp # twin.current_timestamp
    /\ start_control_loop
    /\ Step > SuppressSteps
    /\ PreviousSpeed = current_speed
    /\ set_throttle > 0
    /\ set_throttle < Milli
    /\ set_steer # 0
    /\ CommandsOf(twin) = Commands

\* C12: step equals the number of update_controls calls completed since
\* construction, Cold ones included: each completed call adds exactly 1 and
\* no other call, nor a failed update_controls, changes it.
C12_StepCountsCompleted ==
    /\ Step = completed
    /\ completed > 0 => "step" \in DOMAIN vars_
\* two Cold calls have completed and a third has failed on an empty path
C12_Witness ==
    /\ ~start_control_loop
    /\ completed = 2
    /\ Step = 2
    /\ raised = "IndexError"

\* accumulated_speed_error: v_diff_previous, 0 until it is created
AccumulatedError ==
    IF "v_diff_previous" \in DOMAIN vars_ THEN vars_["v_diff_previous"] ELSE 0

\* C13: every completed update_controls call, Cold or Warm, leaves
\* previous_speed equal to that tick's current speed and adds that tick's
\* (desired speed - current speed) to the accumulated speed error; no other
\* call changes either, so the accumulator always equals the sum of the speed
\* errors of all completed ticks.
C13_SpeedMemory ==
    /\ [](AccumulatedError = error_sum)
    /\ [][IF ControlsCompleted
          THEN /\ PreviousSpeed' = current_speed
               /\ AccumulatedError' = AccumulatedError + (desired_speed' - current_speed)
          ELSE UNCHANGED <<PreviousSpeed, AccumulatedError>>]_vars
\* an error of 7 m/s accumulated on an earlier tick is still there after a
\* Warm tick with no speed error
C13_Witness ==
    /\ start_control_loop
    /\ Step >= 2
    /\ PreviousSpeed = current_speed
    /\ desired_speed = current_speed
    /\ AccumulatedError = 7
    /\ error_sum = 7

Min(a, b) == IF a <= b THEN a ELSE b
\* the steer command the lateral law gives when it steers to waypoint
SteerTo(x, y, yaw, v_desired, waypoint, step) ==
    SetSteer(LimitSteer(PurePursuit(x, y, yaw, v_desired, waypoint), step))

\* C14: a Warm update_controls call steers to the waypoint at index
\* min(floor(step / 3), len(path) - 1), step being the value before the call's
\* increment: an index fixed by step and the path length alone.
C14_LookaheadWaypoint ==
    [][(ControlsCompleted /\ start_control_loop)
          => LET k == Min(Step \div 3, Len(waypoints) - 1)
             IN  set_steer' = SteerTo(current_x, current_y, current_yaw, desired_speed',
                                      waypoints[k + 1], Step)]_vars
\* past the suppression, on the long path, the call has steered to the waypoint
\* at floor(step / 3), short of the last index, and steering to the next or to
\* the last waypoint would have given another command
C14_Witness ==
    /\ start_control_loop
    /\ Step > SuppressSteps
    /\ waypoints = PathLong
    /\ (Step - 1) \div 3 < Len(waypoints) - 2
    /\ PreviousSpeed = current_speed
    /\ desired_speed = update_desired_speed(waypoints, current_x, current_y)
    /\ set_steer = SteerTo(current_x, current_y, current_yaw, desired_speed,
                           waypoints[(Step - 1) \div 3 + 1], Step - 1)
    /\ set_steer # SteerTo(current_x, current_y, current_yaw, desired_speed,
                           waypoints[(Step - 1) \div 3 + 2], Step - 1)
    /\ set_steer # SteerTo(current_x, current_y, current_yaw, desired_speed,
                           waypoints[Len(waypoints)], Step - 1)

Clamp(value, lo, hi) == IF value > hi THEN hi ELSE IF value < lo THEN lo ELSE value
\* (0.6 * e + 1.0 * dv + 0.01 * acc) / (16.25 / 2 / 5), in thousandths
ThrottleLaw(e, dv, acc) == RDiv((600 * e + 1000 * dv + 10 * acc) * 1000, 1625)

\* C15: a Warm update_controls call sets the throttle to
\* clamp((0.6 (v_d - v) + 1.0 (v - previous_speed) + 0.01 accumulated_speed_error)
\* / 1.625, 0, 1), with previous_speed and accumulated_speed_error as the
\* previous tick left them (0 if there was none).
C15_ThrottleLaw ==
    [][(ControlsCompleted /\ start_control_loop)
          => set_throttle' = Clamp(ThrottleLaw(desired_speed' - current_speed,
                                               current_speed - PreviousSpeed,
                                               AccumulatedError),
                                   0, Milli)]_vars
\* an unsaturated throttle made of the speed-delta term and an accumulated
\* error of 1 m/s, on a tick with no speed error
C15_Witness ==
    /\ start_control_loop
    /\ Step >= 2
    /\ PreviousSpeed = current_speed
    /\ desired_speed = current_speed
    /\ AccumulatedError = 1
    /\ set_throttle = ThrottleLaw(0, 1, 1)
    /\ set_throttle > 0
    /\ set_throttle < Milli

\* the fields update_values writes
VehicleState == <<current_x, current_y, current_yaw, current_speed, current_timestamp,
                  current_frame, start_control_loop>>

\* C16: a call that changes the vehicle state or the Warm flag (update_values)
\* changes nothing else, and a call that changes the path (update_waypoints)
\* changes nothing else: throttle, steer, brake, desired speed, step,
\* previous_speed and accumulated_speed_error stay as they were.
C16_UpdatesTouchOnlyTheirFields ==
    [][/\ VehicleState' # VehicleState
            => UNCHANGED <<waypoints, desired_speed, set_throttle, set_steer, set_brake, vars_>>
       /\ waypoints' # waypoints
            => UNCHANGED <<VehicleState, desired_speed, set_throttle, set_steer, set_brake,
                           vars_>>]_vars
\* past the suppression, the speed and then the path were replaced after the
\* last tick: commands, step and previous_speed are those of that tick
C16_Witness ==
    /\ start_control_loop
    /\ Step > SuppressSteps
    /\ Step = completed
    /\ waypoints = PathEmpty
    /\ raised = "none"
    /\ current_speed # PreviousSpeed
    /\ set_throttle > 0
    /\ set_steer # 0

\* C17: an update_controls call that fails on an empty path changes no field
\* of the controller: commands, desired speed, step, previous_speed and
\* accumulated_speed_error are as before, so later calls proceed as if the
\* failed call had not been made.
C17_FailedCallChangesNothing ==
    [][raised' = "IndexError" => UNCHANGED ctrl]_vars
\* a call has just failed on a controller that had completed Warm ticks past
\* the suppression: their desired speed, commands and memory are still there
C17_Witness ==
    /\ raised = "IndexError"
    /\ waypoints = PathEmpty
    /\ start_control_loop
    /\ Step > SuppressSteps
    /\ Step = completed
    /\ desired_speed = 12
    /\ AccumulatedError # 0
    /\ set_throttle > 0
    /\ set_steer # 0

\* C18: the steer command has magnitude at most 0.3 * 180/70/pi, the image of
\* the 0.3 rad limit, and is either 0 or at least the image of the 0.05 rad
\* deadband: the angle handed to set_steer is within [-0.3, 0.3] and outside
\* (-0.05, 0.05) \ {0}, so that the clamp of set_steer never saturates.
C18_SteerWithinLimit ==
    /\ Abs(set_steer) <= RDiv(conv_rad_to_steer * SteerLimit, Milli)
    /\ set_steer = 0 \/ Abs(set_steer) >= RDiv(conv_rad_to_steer * Deadband, Milli)

====
